---- MODULE Spec2Model ----
(***************************************************************************)
(* State-machine model of TranscriptionService (src/transcription.py):     *)
(* load_model, _try_download, download_audio, transcribe_audio and         *)
(* process_video, together with the file system, the clock, the media      *)
(* extractor and the speech model they call.                               *)
(***************************************************************************)
EXTENDS Integers, Sequences, FiniteSets, TLC

\* ---- bounds of the model (not program constants) ----
MaxClock == 2
MaxLoaderFailures == 1

\* ---- values ----
None == [none |-> TRUE]

Timestamps == 1..MaxClock

\* f"audio_{timestamp}.mp3" under tempfile.gettempdir()
TempFileName(timestamp) == [dir |-> "tmp", stem |-> timestamp, ext |-> ".mp3"]

\* temp_file[:-4]: the path without its last four characters
StripLast4(path) ==
    IF path.ext = ".mp3" THEN [path EXCEPT !.ext = ""]
    ELSE [path EXCEPT !.stem = 0, !.ext = ""]

Paths == { TempFileName(t) : t \in Timestamps } \cup { StripLast4(TempFileName(t)) : t \in Timestamps }

PathStr(path) == <<"audio_", ToString(path.stem), path.ext>>

format_options == <<"bestaudio/best", "worstaudio/worst", "bestaudio[ext=m4a]", "bestaudio[ext=mp3]", "140">>

Str(s) == [str |-> s]
Texts == {Str("hello world"), Str("bye")}

\* ---- exceptions: a type and a message (a sequence of string pieces) ----
Exc(type, msg) == [type |-> type, msg |-> msg]
StrOf(e) == e.msg
Contains(msg, piece) == \E i \in DOMAIN msg : msg[i] = piece

VARIABLES
    model,          \* self.model: None or a handle
    model_loaded,   \* self._model_loaded
    loaderCalls,    \* number of whisper.load_model invocations so far
    fs,             \* file system: path -> "absent" | "empty" | "data"
    removeFailed,   \* paths on which os.remove raised during the running call
    clock,          \* int(time.time())
    pc,             \* position of the running call
    entry,          \* the method the caller invoked
    temp_file,      \* download_audio's temp_file
    audio_path,     \* audio_path of transcribe_audio / process_video
    attempts,       \* format options handed to _try_download in this download_audio call
    exc,            \* exception in flight
    result,         \* model.transcribe's result, then the transcript handed to process_video
    outcome,        \* how the last finished call ended
    downloaded,     \* the temp audio file's state when the extractor first reported success
    entryFile,      \* the audio file's state when transcribe_audio was entered
    modelText,      \* the text the model returned in this call
    callLoads,      \* loader invocations during the running call
    callInvokes,    \* model.transcribe invocations during the running call
    prevTemp        \* the temp_file of the latest finished call that made one

vars == <<model, model_loaded, loaderCalls, fs, removeFailed, clock, pc, entry, temp_file,
          audio_path, attempts, exc, result, outcome, downloaded, entryFile,
          modelText, callLoads, callInvokes, prevTemp>>

NoOutcome == [op |-> "none", kind |-> "none", val |-> None]
Returned(op, v) == [op |-> op, kind |-> "return", val |-> v]
Raised(op, e) == [op |-> op, kind |-> "raise", val |-> e]

Init ==
    /\ model = None
    /\ model_loaded = FALSE
    /\ loaderCalls = 0
    /\ fs = [p \in Paths |-> "absent"]
    /\ removeFailed = {}
    /\ clock = 1
    /\ pc = "idle"
    /\ entry = "none"
    /\ temp_file = None
    /\ audio_path = None
    /\ attempts = <<>>
    /\ exc = None
    /\ result = None
    /\ outcome = NoOutcome
    /\ downloaded = "none"
    /\ entryFile = "none"
    /\ modelText = None
    /\ callLoads = 0
    /\ callInvokes = 0
    /\ prevTemp = None

\* ---- control transfer between a method and its caller ----
Others == <<model, model_loaded, loaderCalls, fs, removeFailed, clock>>

\* the caller invokes a method of the service
StartCall(op, firstPc) ==
    /\ pc = "idle"
    /\ loaderCalls <= MaxLoaderFailures + 1
    /\ pc' = firstPc
    /\ entry' = op
    /\ UNCHANGED <<attempts, exc, result, outcome, downloaded, modelText, callLoads, callInvokes>>

\* the invoked method returns or raises to the caller
Finish(o) ==
    /\ pc' = "done"
    /\ outcome' = o
    /\ exc' = None

\* the caller has the outcome; the locals of the finished call are gone
CallerResumes ==
    /\ pc = "done"
    /\ pc' = "idle"
    /\ entry' = "none"
    /\ temp_file' = None
    /\ audio_path' = None
    /\ attempts' = <<>>
    /\ exc' = None
    /\ result' = None
    /\ outcome' = NoOutcome
    /\ downloaded' = "none"
    /\ entryFile' = "none"
    /\ modelText' = None
    /\ callLoads' = 0
    /\ callInvokes' = 0
    /\ removeFailed' = {}
    /\ prevTemp' = IF temp_file # None THEN temp_file ELSE prevTemp
    /\ UNCHANGED <<model, model_loaded, loaderCalls, fs, clock>>

\* ---- load_model (lines 19-36) ----
NeedsLoadAlways(loaded) == TRUE
NeedsLoad(loaded) == ~loaded

\* the state of the service after load_model ran with loader outcome ok
\* [model, loaded, invoked, raised]
load_model_flag_first(m, loaded, n, ok) ==
    IF NeedsLoad(loaded)
    THEN IF ok THEN [model |-> [handle |-> n + 1], loaded |-> TRUE, invoked |-> TRUE, raised |-> FALSE]
               ELSE [model |-> m, loaded |-> TRUE, invoked |-> TRUE, raised |-> TRUE]
    ELSE [model |-> m, loaded |-> loaded, invoked |-> FALSE, raised |-> FALSE]
load_model(m, loaded, n, ok) ==
    IF NeedsLoad(loaded)
    THEN IF ok THEN [model |-> [handle |-> n + 1], loaded |-> TRUE, invoked |-> TRUE, raised |-> FALSE]
               ELSE [model |-> m, loaded |-> loaded, invoked |-> TRUE, raised |-> TRUE]
    ELSE [model |-> m, loaded |-> loaded, invoked |-> FALSE, raised |-> FALSE]

\* whisper.load_model returns a handle or raises; it raises at most MaxLoaderFailures times
LoaderOutcomes == IF loaderCalls < MaxLoaderFailures THEN BOOLEAN ELSE {TRUE}

LoaderError == Exc("RuntimeError", <<"whisper.load_model failed">>)
ModelError == Exc("RuntimeError", <<"model.transcribe failed">>)

ApplyLoad(r) ==
    /\ model' = r.model
    /\ model_loaded' = r.loaded
    /\ loaderCalls' = IF r.invoked THEN loaderCalls + 1 ELSE loaderCalls
    /\ callLoads' = IF r.invoked THEN callLoads + 1 ELSE callLoads

\* the caller invokes load_model()
CallLoadModel ==
    /\ UNCHANGED prevTemp
    /\ pc = "idle"
    /\ loaderCalls <= MaxLoaderFailures + 1
    /\ \E ok \in LoaderOutcomes :
         LET r == load_model(model, model_loaded, loaderCalls, ok) IN
         /\ ApplyLoad(r)
         /\ outcome' = IF r.raised THEN Raised("load_model", LoaderError)
                                   ELSE Returned("load_model", r.model)
    /\ entry' = "load_model"
    /\ pc' = "done"
    /\ UNCHANGED <<fs, removeFailed, clock, temp_file, audio_path, attempts, exc, result,
                   downloaded, entryFile, modelText, callInvokes>>

\* ---- download_audio (lines 78-112) ----

\* lines 80-84
CallDownloadAudio ==
    /\ UNCHANGED prevTemp
    /\ StartCall("download_audio", "dl_loop")
    /\ temp_file' = TempFileName(clock)
    /\ UNCHANGED <<audio_path, entryFile>>
    /\ UNCHANGED Others

\* the for loop of line 95 hands out the options in order
NextOptionSkipsOne(att) == Len(att) + 2
NextOptionFirstAgain(att) == 1
NextOption(att) == Len(att) + 1

\* line 96-97: break on the first attempt that returns True
BreaksNever(ok) == FALSE
BreaksAlways(ok) == TRUE
Breaks(ok) == ok

\* what the extractor may leave at temp_file and at its outtmpl temp_file[:-4]
ExtractorWrites == [mp3 : {"absent", "empty", "data"}, base : {"absent", "data"}]

\* _try_download (lines 67-76) inside one iteration of the loop (lines 95-99)
TryDownload ==
    /\ UNCHANGED prevTemp
    /\ pc = "dl_loop"
    /\ NextOption(attempts) \in DOMAIN format_options
    /\ \E ok \in BOOLEAN, w \in ExtractorWrites :
         /\ fs' = [fs EXCEPT ![temp_file] = w.mp3, ![StripLast4(temp_file)] = w.base]
         /\ downloaded' = IF ok /\ downloaded = "none" THEN w.mp3 ELSE downloaded
         /\ attempts' = Append(attempts, [format |-> format_options[NextOption(attempts)], ok |-> ok])
         /\ IF Breaks(ok)
            THEN pc' = "dl_check" /\ exc' = exc
            ELSE IF NextOption(attempts) + 1 \in DOMAIN format_options
                 THEN pc' = "dl_loop" /\ exc' = exc
                 ELSE /\ pc' = "dl_except"
                      /\ exc' = Exc("ValueError", <<"All download attempts failed">>)
    /\ UNCHANGED <<model, model_loaded, loaderCalls, removeFailed, clock, entry, temp_file,
                   audio_path, result, outcome, entryFile, modelText, callLoads, callInvokes>>

\* lines 101-104
DownloadCheckAlways(files, tf) == TRUE
DownloadCheck(files, tf) == tf \in DOMAIN files /\ files[tf] # "absent"

DownloadReturn ==
    /\ UNCHANGED prevTemp
    /\ pc = "dl_check"
    /\ IF DownloadCheck(fs, temp_file)
       THEN IF entry = "download_audio"
            THEN Finish(Returned("download_audio", temp_file)) /\ audio_path' = audio_path
            ELSE pc' = "pv_check" /\ audio_path' = temp_file /\ exc' = exc /\ outcome' = outcome
       ELSE /\ pc' = "dl_except"
            /\ exc' = Exc("FileNotFoundError", <<"Downloaded audio file not found">>)
            /\ UNCHANGED <<audio_path, outcome>>
    /\ UNCHANGED <<model, model_loaded, loaderCalls, fs, removeFailed, clock, entry, temp_file,
                   attempts, result, downloaded, entryFile, modelText, callLoads, callInvokes>>

\* os.remove(path) deletes the file or raises; removes tells which
RemoveOutcomes(files, path) ==
    IF path \in DOMAIN files /\ files[path] # "absent" THEN BOOLEAN ELSE {TRUE}

PermissionError(path) == Exc("PermissionError", <<"[Errno 13] Permission denied: ">> \o PathStr(path))

\* lines 107-111: the files after the handler's deletions, and the error a deletion raised
DownloadCleanupNone(files, tf, removes1, removes2) == [fs |-> files, raised |-> None]
DownloadCleanupMp3Only(files, tf, removes1, removes2) ==
    IF tf = None THEN [fs |-> files, raised |-> None]
    ELSE IF files[tf] # "absent" /\ ~removes1
         THEN [fs |-> files, raised |-> PermissionError(tf)]
         ELSE [fs |-> [files EXCEPT ![tf] = "absent"], raised |-> None]
DownloadCleanup(files, tf, removes1, removes2) ==
    IF tf = None THEN [fs |-> files, raised |-> None]
    ELSE IF files[tf] # "absent" /\ ~removes1
         THEN [fs |-> files, raised |-> PermissionError(tf)]
         ELSE LET f1 == [files EXCEPT ![tf] = "absent"]
                  b == StripLast4(tf) IN
              IF f1[b] # "absent" /\ ~removes2
              THEN [fs |-> f1, raised |-> PermissionError(b)]
              ELSE [fs |-> [f1 EXCEPT ![b] = "absent"], raised |-> None]

\* line 112
DownloadError(e) == Exc("ValueError", <<"Error downloading audio: ">> \o StrOf(e))

\* lines 106-112
DownloadExcept ==
    /\ UNCHANGED prevTemp
    /\ pc = "dl_except"
    /\ \E removes1 \in RemoveOutcomes(fs, temp_file), removes2 \in RemoveOutcomes(fs, StripLast4(temp_file)) :
         LET c == DownloadCleanup(fs, temp_file, removes1, removes2)
             e == IF c.raised = None THEN DownloadError(exc) ELSE c.raised IN
         /\ fs' = c.fs
         /\ removeFailed' = removeFailed \cup { p \in {temp_file, StripLast4(temp_file)} : c.raised = PermissionError(p) }
         /\ IF entry = "download_audio"
            THEN Finish(Raised("download_audio", e))
            ELSE pc' = "pv_except" /\ exc' = e /\ outcome' = outcome
    /\ UNCHANGED <<model, model_loaded, loaderCalls, clock, entry, temp_file, audio_path,
                   attempts, result, downloaded, entryFile, modelText, callLoads, callInvokes>>

\* ---- transcribe_audio (lines 114-152) ----

\* a method called by process_video hands its result to it; called by the caller, it ends the call
ReturnTo(op, v, nextPc) ==
    IF entry = op
    THEN Finish(Returned(op, v)) /\ result' = result
    ELSE pc' = nextPc /\ result' = v /\ exc' = exc /\ outcome' = outcome

RaiseTo(op, e, nextPc) ==
    IF entry = op
    THEN Finish(Raised(op, e))
    ELSE pc' = nextPc /\ exc' = e /\ outcome' = outcome

CallTranscribeAudio ==
    /\ UNCHANGED prevTemp
    /\ StartCall("transcribe_audio", "tr_validate")
    /\ \E path \in Paths : audio_path' = path /\ entryFile' = fs[path]
    /\ UNCHANGED temp_file
    /\ UNCHANGED Others

\* lines 117-121: None when the file passes, else the exception raised
ValidateAudioNoExistsCheck(files, path) ==
    IF files[path] = "empty" THEN Exc("ValueError", <<"Audio file is empty">>) ELSE None
ValidateAudioNoSizeCheck(files, path) ==
    IF ~(path \in DOMAIN files /\ files[path] # "absent")
    THEN Exc("FileNotFoundError", <<"Audio file not found at ">> \o PathStr(path))
    ELSE None
ValidateAudio(files, path) ==
    IF ~(path \in DOMAIN files /\ files[path] # "absent")
    THEN Exc("FileNotFoundError", <<"Audio file not found at ">> \o PathStr(path))
    ELSE IF files[path] = "empty"
         THEN Exc("ValueError", <<"Audio file is empty">>)
         ELSE None

TranscribeValidate ==
    /\ UNCHANGED prevTemp
    /\ pc = "tr_validate"
    /\ LET v == ValidateAudio(fs, audio_path) IN
         IF v = None THEN pc' = "tr_load" /\ exc' = exc
                     ELSE pc' = "tr_except" /\ exc' = v
    /\ UNCHANGED <<model, model_loaded, loaderCalls, fs, removeFailed, clock, entry, temp_file,
                   audio_path, attempts, result, outcome, downloaded, entryFile, modelText, callLoads, callInvokes>>

\* line 124
TranscribeLoad ==
    /\ UNCHANGED prevTemp
    /\ pc = "tr_load"
    /\ \E ok \in LoaderOutcomes :
         LET r == load_model(model, model_loaded, loaderCalls, ok) IN
         /\ ApplyLoad(r)
         /\ IF r.raised THEN pc' = "tr_except" /\ exc' = LoaderError
                        ELSE pc' = "tr_invoke" /\ exc' = exc
    /\ UNCHANGED <<fs, removeFailed, clock, entry, temp_file, audio_path, attempts, result,
                   outcome, downloaded, entryFile, modelText, callInvokes>>

\* lines 127-132: the model returns a result or raises
TranscribeInvoke ==
    /\ UNCHANGED prevTemp
    /\ pc = "tr_invoke"
    /\ callInvokes' = callInvokes + 1
    /\ \/ \E text \in Texts :
            result' = [text |-> text] /\ modelText' = text /\ pc' = "tr_cleanup" /\ exc' = exc
       \/ result' = result /\ modelText' = modelText /\ pc' = "tr_except" /\ exc' = ModelError
    /\ UNCHANGED <<model, model_loaded, loaderCalls, fs, removeFailed, clock, entry, temp_file,
                   audio_path, attempts, outcome, downloaded, entryFile, callLoads>>

\* try: os.remove(path) except Exception: pass
RemoveNever(files, path, removes) == files
RemoveQuietly(files, path, removes) ==
    IF path \in DOMAIN files /\ files[path] # "absent" /\ removes
    THEN [files EXCEPT ![path] = "absent"]
    ELSE files

\* the paths at which a deletion was tried and raised
FailedAt(path, removes) == IF removes THEN {} ELSE {path}

\* line 145: result["text"]
ResultWhole(r) == r
ResultText(r) == r.text

\* lines 134-145
TranscribeReturn ==
    /\ UNCHANGED prevTemp
    /\ pc = "tr_cleanup"
    /\ \E removes \in RemoveOutcomes(fs, audio_path) :
         /\ fs' = RemoveQuietly(fs, audio_path, removes)
         /\ removeFailed' = removeFailed \cup FailedAt(audio_path, removes)
    /\ ReturnTo("transcribe_audio", ResultText(result), "pv_return")
    /\ UNCHANGED <<model, model_loaded, loaderCalls, clock, entry, temp_file,
                   audio_path, attempts, downloaded, entryFile, modelText, callLoads, callInvokes>>

\* line 152
TranscribeError(e) == Exc("ValueError", <<"Error transcribing audio: ">> \o StrOf(e))

\* lines 146-152
TranscribeExcept ==
    /\ UNCHANGED prevTemp
    /\ pc = "tr_except"
    /\ \E removes \in RemoveOutcomes(fs, audio_path) :
         /\ fs' = RemoveQuietly(fs, audio_path, removes)
         /\ removeFailed' = removeFailed \cup FailedAt(audio_path, removes)
    /\ RaiseTo("transcribe_audio", TranscribeError(exc), "pv_except")
    /\ UNCHANGED <<model, model_loaded, loaderCalls, clock, entry, temp_file,
                   audio_path, attempts, result, downloaded, entryFile, modelText, callLoads, callInvokes>>

\* ---- process_video (lines 154-171) ----

\* lines 156-158: audio_path = None, then download_audio(url) starts
CallProcessVideo ==
    /\ UNCHANGED prevTemp
    /\ StartCall("process_video", "dl_loop")
    /\ audio_path' = None
    /\ temp_file' = TempFileName(clock)
    /\ UNCHANGED entryFile
    /\ UNCHANGED Others

\* lines 159-162: the path download_audio returned is checked and handed to transcribe_audio
ProcessCheck ==
    /\ UNCHANGED prevTemp
    /\ pc = "pv_check"
    /\ IF audio_path = None
       THEN /\ pc' = "pv_except"
            /\ exc' = Exc("ValueError", <<"Failed to download audio">>)
            /\ entryFile' = entryFile
       ELSE /\ pc' = "tr_validate"
            /\ exc' = exc
            /\ entryFile' = fs[audio_path]
    /\ UNCHANGED <<model, model_loaded, loaderCalls, fs, removeFailed, clock, entry, temp_file,
                   audio_path, attempts, result, outcome, downloaded, modelText, callLoads, callInvokes>>

\* line 163
ProcessReturn ==
    /\ UNCHANGED prevTemp
    /\ pc = "pv_return"
    /\ Finish(Returned("process_video", result))
    /\ UNCHANGED <<model, model_loaded, loaderCalls, fs, removeFailed, clock, entry, temp_file,
                   audio_path, attempts, result, downloaded, entryFile, modelText, callLoads, callInvokes>>

\* line 171
ProcessErrorUnwrapped(e) == e
ProcessError(e) == Exc("ValueError", <<"Error processing video: ">> \o StrOf(e))

\* lines 164-171
ProcessExcept ==
    /\ UNCHANGED prevTemp
    /\ pc = "pv_except"
    /\ IF audio_path # None
       THEN \E removes \in RemoveOutcomes(fs, audio_path) :
              /\ fs' = RemoveQuietly(fs, audio_path, removes)
              /\ removeFailed' = removeFailed \cup FailedAt(audio_path, removes)
       ELSE UNCHANGED <<fs, removeFailed>>
    /\ Finish(Raised("process_video", ProcessError(exc)))
    /\ UNCHANGED <<model, model_loaded, loaderCalls, clock, entry, temp_file,
                   audio_path, attempts, result, downloaded, entryFile, modelText, callLoads, callInvokes>>

\* time passes between calls
Tick ==
    /\ UNCHANGED prevTemp
    /\ pc = "idle"
    /\ clock < MaxClock
    /\ clock' = clock + 1
    /\ UNCHANGED <<model, model_loaded, loaderCalls, fs, removeFailed, pc, entry, temp_file,
                   audio_path, attempts, exc, result, outcome, downloaded, entryFile, modelText, callLoads, callInvokes>>

Next ==
    \/ Tick
    \/ CallerResumes
    \/ CallLoadModel
    \/ CallDownloadAudio
    \/ TryDownload
    \/ DownloadReturn
    \/ DownloadExcept
    \/ CallTranscribeAudio
    \/ TranscribeValidate
    \/ TranscribeLoad
    \/ TranscribeInvoke
    \/ TranscribeReturn
    \/ TranscribeExcept
    \/ CallProcessVideo
    \/ ProcessCheck
    \/ ProcessReturn
    \/ ProcessExcept

Spec == Init /\ [][Next]_vars

\* the interpreter runs an invoked method on to its return or raise: every
\* external call in it (extractor, loader, model, filesystem) returns or raises
Step ==
    \/ TryDownload
    \/ DownloadReturn
    \/ DownloadExcept
    \/ TranscribeValidate
    \/ TranscribeLoad
    \/ TranscribeInvoke
    \/ TranscribeReturn
    \/ TranscribeExcept
    \/ ProcessCheck
    \/ ProcessReturn
    \/ ProcessExcept

FairSpec == Spec /\ WF_vars(Step)

\* ---- the claims ----

Failed(op) == outcome.op = op /\ outcome.kind = "raise"
Succeeded(op) == outcome.op = op /\ outcome.kind = "return"
Exhausted == Len(attempts) = Len(format_options) /\ \A i \in DOMAIN attempts : ~attempts[i].ok
MissingOutputError == DownloadError(Exc("FileNotFoundError", <<"Downloaded audio file not found">>))

\* C1: when process_video has failed and the temp audio file can be deleted, the
\* file does not exist any more (whether the call created it or found it).
C1_FailedProcessRemovesFile ==
    (Failed("process_video") /\ temp_file \notin removeFailed) => fs[temp_file] = "absent"

C1_Witness ==
    /\ Failed("process_video")
    /\ entryFile = "data"
    /\ callInvokes = 1
    /\ fs[temp_file] = "absent"

\* C2: when all five format options failed, download_audio raises an error
\* carrying "All download attempts failed" and neither the expected output path
\* nor its pre-extension variant holds a file.
C2_ExhaustionLeavesNoFile ==
    (Exhausted /\ outcome.op = "download_audio") =>
        /\ outcome.kind = "raise"
        /\ Contains(outcome.val.msg, "All download attempts failed")
        /\ fs[temp_file] = "absent"
        /\ fs[StripLast4(temp_file)] = "absent"

\* C3: an attempt that succeeded is the last attempt of its download_audio call;
\* when the first option succeeds exactly one attempt is made.
C3_StopsAtFirstSuccess ==
    \A i \in DOMAIN attempts : attempts[i].ok => Len(attempts) = i

C3_Witness ==
    /\ Len(attempts) = 1
    /\ attempts[1].ok
    /\ Succeeded("download_audio")

\* transcribe_audio has returned text, to the caller or to process_video
TranscribeReturned ==
    \/ Succeeded("transcribe_audio")
    \/ pc = "pv_return"
    \/ Succeeded("process_video")

\* C4 as stated: after transcribe_audio returned text, no file exists at its path.
C4_Original ==
    TranscribeReturned => fs[audio_path] = "absent"

\* C4 amended: after transcribe_audio returned text, no file exists at its path
\* unless os.remove could not delete it (the deletion error is ignored).
C4_SuccessRemovesDeletableFile ==
    (TranscribeReturned /\ audio_path \notin removeFailed) => fs[audio_path] = "absent"

C4_Witness ==
    /\ Succeeded("transcribe_audio")
    /\ callInvokes = 1
    /\ entryFile = "data"
    /\ fs[audio_path] = "absent"

\* C5: once the model is loaded, no step invokes the loader again or changes the
\* cached handle, and every load_model call returns that handle.
C5_LoadIsCached ==
    [][model_loaded =>
        /\ loaderCalls' = loaderCalls
        /\ model' = model
        /\ model_loaded'
        /\ (outcome'.op = "load_model" => outcome' = Returned("load_model", model))]_vars

C5_Witness ==
    /\ model_loaded
    /\ Succeeded("load_model")
    /\ callLoads = 0
    /\ outcome.val = model
    /\ loaderCalls = 1

\* C6: when an attempt succeeded and no file exists at the expected output path,
\* download_audio raises the download error that carries "Downloaded audio file
\* not found".
C6_MissingOutputIsReported ==
    downloaded = "absent" =>
        /\ pc \in {"dl_check", "dl_except", "pv_except", "done"}
        /\ (pc = "pv_except" => exc = MissingOutputError)
        /\ (outcome.op = "download_audio" => outcome = Raised("download_audio", MissingOutputError))
        /\ (outcome.op = "process_video" => outcome = Raised("process_video", ProcessError(MissingOutputError)))

\* C7: a transcribe_audio call entered with no file at its path never loads or
\* invokes the model and ends with the error carrying "Audio file not found at".
C7_MissingFileNoModel ==
    entryFile = "absent" =>
        /\ callLoads = 0
        /\ callInvokes = 0
        /\ pc \notin {"tr_load", "tr_invoke", "tr_cleanup"}
        /\ (outcome.op = "transcribe_audio" =>
               /\ outcome.kind = "raise"
               /\ outcome.val = TranscribeError(Exc("FileNotFoundError", <<"Audio file not found at ">> \o PathStr(audio_path))))

C7_Witness ==
    /\ entryFile = "absent"
    /\ Failed("transcribe_audio")

\* C8: a transcribe_audio call entered with a zero-byte file at its path never
\* loads or invokes the model and ends with the error carrying "Audio file is empty".
C8_EmptyFileNoModel ==
    entryFile = "empty" =>
        /\ callLoads = 0
        /\ callInvokes = 0
        /\ pc \notin {"tr_load", "tr_invoke", "tr_cleanup", "pv_return"}
        /\ (outcome.op = "transcribe_audio" =>
               outcome = Raised("transcribe_audio", TranscribeError(Exc("ValueError", <<"Audio file is empty">>))))
        /\ (outcome.op = "process_video" =>
               /\ outcome.kind = "raise"
               /\ Contains(outcome.val.msg, "Audio file is empty"))

C8_Witness ==
    /\ entryFile = "empty"
    /\ Failed("transcribe_audio")

\* the extractor failed on the first k-1 options and succeeded on the k-th
FirstSuccessAt(k) ==
    /\ k \in DOMAIN attempts
    /\ attempts[k].ok
    /\ \A j \in 1..(k - 1) : ~attempts[j].ok

\* C9 as stated: when the k-th option is the first to succeed and leaves the
\* output file non-empty and the model returns text t, process_video returns t
\* after exactly k attempts and the audio file does not exist any more.
C9_Original ==
    \A k \in DOMAIN format_options :
        (outcome.op = "process_video" /\ FirstSuccessAt(k) /\ downloaded = "data" /\ modelText # None) =>
            /\ outcome = Returned("process_video", modelText)
            /\ Len(attempts) = k
            /\ fs[temp_file] = "absent"

\* C9 amended: the same, the file being gone only when os.remove can delete it.
C9_EndToEndSuccess ==
    \A k \in DOMAIN format_options :
        (outcome.op = "process_video" /\ FirstSuccessAt(k) /\ downloaded = "data" /\ modelText # None) =>
            /\ outcome = Returned("process_video", modelText)
            /\ Len(attempts) = k
            /\ (temp_file \notin removeFailed => fs[temp_file] = "absent")

C9_Witness ==
    /\ outcome = Returned("process_video", Str("hello world"))
    /\ FirstSuccessAt(3)
    /\ Len(attempts) = 3
    /\ downloaded = "data"
    /\ fs[temp_file] = "absent"

\* C10: when all five format options failed, process_video raises an error whose
\* message contains "downloading audio" and "All download attempts failed".
C10_ExhaustionMessage ==
    (Exhausted /\ outcome.op = "process_video") =>
        /\ outcome.kind = "raise"
        /\ Contains(outcome.val.msg, "Error downloading audio: ")
        /\ Contains(outcome.val.msg, "All download attempts failed")

\* process_video has ended, with the transcript or with its error
ProcessEnded == pc = "done" /\ outcome.op = "process_video"

\* C11 as stated: when process_video has ended, no file remains at the call's
\* temp audio path nor at its pre-extension path.
C11_Original ==
    ProcessEnded =>
        /\ fs[temp_file] = "absent"
        /\ fs[StripLast4(temp_file)] = "absent"

\* C11 amended: when process_video has ended, no file remains at the temp audio
\* path unless an os.remove on it raised; the pre-extension path holds no file
\* after a call whose download failed and whose deletions did not raise.
C11_NoOrphanedAudioFile ==
    ProcessEnded =>
        /\ (temp_file \notin removeFailed => fs[temp_file] = "absent")
        /\ ((Failed("process_video") /\ entryFile = "none" /\ removeFailed = {}) =>
               fs[StripLast4(temp_file)] = "absent")

C11_Witness ==
    /\ Succeeded("process_video")
    /\ entryFile = "data"
    /\ fs[temp_file] = "absent"
    /\ fs[StripLast4(temp_file)] = "data"

\* the descriptive error of each stage
StagePrefix(op) ==
    CASE op = "download_audio" -> "Error downloading audio: "
      [] op = "transcribe_audio" -> "Error transcribing audio: "
      [] op = "process_video" -> "Error processing video: "
      [] OTHER -> "none"

\* the causes the stages raise themselves or receive from the loader and the model
OriginalCauses ==
    { <<"All download attempts failed">>, <<"Downloaded audio file not found">>,
      <<"Audio file is empty">>, LoaderError.msg, ModelError.msg }
    \cup { <<"Audio file not found at ">> \o PathStr(p) : p \in Paths }

\* msg without its first n pieces
DropPieces(msg, n) == SubSeq(msg, n + 1, Len(msg))

\* C12: the error a failed download_audio, transcribe_audio or process_video
\* raises is the stage's descriptive error embedding the original cause, never
\* the error of a deletion made while cleaning up.
C12_CleanupNeverMasks ==
    /\ \A op \in {"download_audio", "transcribe_audio"} :
         Failed(op) =>
            /\ outcome.val.type = "ValueError"
            /\ outcome.val.msg[1] = StagePrefix(op)
            /\ DropPieces(outcome.val.msg, 1) \in OriginalCauses
    /\ Failed("process_video") =>
            /\ outcome.val.type = "ValueError"
            /\ outcome.val.msg[1] = StagePrefix("process_video")
            /\ outcome.val.msg[2] \in {StagePrefix("download_audio"), StagePrefix("transcribe_audio")}
            /\ DropPieces(outcome.val.msg, 2) \in OriginalCauses

\* C13: the attempts of a download_audio call are a prefix of format_options in
\* its order, every attempt but the last has failed, and no option occurs twice.
C13_OptionsInOrder ==
    /\ Len(attempts) <= Len(format_options)
    /\ \A i \in DOMAIN attempts :
         /\ attempts[i].format = format_options[i]
         /\ (i < Len(attempts) => ~attempts[i].ok)
    /\ \A i, j \in DOMAIN attempts : i # j => attempts[i].format # attempts[j].format

C13_Witness ==
    /\ pc = "dl_except"
    /\ Len(attempts) = Len(format_options)
    /\ attempts[Len(attempts)].format = "140"
    /\ exc = Exc("ValueError", <<"All download attempts failed">>)

\* transcribe_audio has raised, to the caller or to process_video
TranscribeFailed ==
    \/ Failed("transcribe_audio")
    \/ (entryFile # "none" /\ (pc = "pv_except" \/ Failed("process_video")))

\* the error transcribe_audio raised, as the caller or process_video got it
TranscribeRaised ==
    IF Failed("transcribe_audio") THEN outcome.val
    ELSE IF pc = "pv_except" THEN exc
    ELSE Exc("ValueError", DropPieces(outcome.val.msg, 1))

ModelRaised == callInvokes = 1 /\ modelText = None

\* C14 as stated: when model.transcribe raised, transcribe_audio fails with
\* "Error transcribing audio: " wrapping the model's message, and after this and
\* after every other failure of transcribe_audio no file exists at its path.
C14_Original ==
    TranscribeFailed =>
        /\ (ModelRaised => TranscribeRaised = TranscribeError(ModelError))
        /\ fs[audio_path] = "absent"

\* C14 amended: the same, the file being gone unless an os.remove on it raised
\* (the handler ignores the deletion's error).
C14_FailureRemovesDeletableFile ==
    TranscribeFailed =>
        /\ (ModelRaised => TranscribeRaised = TranscribeError(ModelError))
        /\ TranscribeRaised.msg[1] = "Error transcribing audio: "
        /\ (audio_path \notin removeFailed => fs[audio_path] = "absent")

C14_Witness ==
    /\ Failed("transcribe_audio")
    /\ ModelRaised
    /\ entryFile = "data"
    /\ outcome.val = TranscribeError(ModelError)
    /\ fs[audio_path] = "absent"

\* the running call is inside transcribe_audio or has been
InTranscribe == pc \in {"tr_validate", "tr_load", "tr_invoke", "tr_cleanup", "tr_except"}
TranscribeEntered ==
    InTranscribe \/ entryFile # "none" \/ callLoads > 0 \/ callInvokes > 0 \/ modelText # None

\* C15: in a process_video call transcribe_audio, load_model and model.transcribe
\* are entered only after download_audio returned the path of its temp file: the
\* last attempt succeeded, the file existed, and audio_path is that path.
C15_DownloadThenTranscribe ==
    (entry = "process_video" /\ TranscribeEntered) =>
        /\ audio_path = temp_file
        /\ attempts # <<>>
        /\ attempts[Len(attempts)].ok
        /\ downloaded \in {"empty", "data"}

C15_Witness ==
    /\ entry = "process_video"
    /\ pc = "tr_invoke"
    /\ audio_path = temp_file
    /\ Len(attempts) = 2
    /\ callLoads = 1

\* C16: no step of a call gives the extractor a sixth attempt or the loader or
\* the model a second invocation; download_audio and transcribe_audio are entered
\* once, from the call's start or from process_video's line 158 / 162, and a
\* handler that has caught a failure ends its method instead of going back.
C16_NoRetry ==
    [][/\ Len(attempts') <= Len(format_options)
       /\ callInvokes' <= 1
       /\ callLoads' <= 1
       /\ ((pc' = "dl_loop" /\ pc # "dl_loop") => pc = "idle")
       /\ (pc' = "tr_validate" => pc \in {"idle", "pv_check"})
       /\ (pc \in {"dl_check", "dl_except"} => pc' \in {"dl_except", "pv_check", "pv_except", "done"})
       /\ (pc \in {"tr_cleanup", "tr_except"} => pc' \in {"pv_return", "pv_except", "done"})
       /\ (pc \in {"pv_return", "pv_except"} => pc' = "done")]_vars

C16_Witness ==
    /\ Failed("process_video")
    /\ Len(attempts) = Len(format_options)
    /\ attempts[Len(attempts)].ok
    /\ ModelRaised
    /\ callLoads = 1

\* C17: the temp path of a download_audio call differs from the temp path of
\* the call before it (the clock never goes back, so two calls with one path
\* have every call between them on that path too).
C17_UniqueTempPath ==
    temp_file # None => temp_file # prevTemp

FailedToDownload == <<"Failed to download audio">>

\* C18: download_audio ends by raising or by returning its temp path with a file
\* at it; process_video never gets None from it, so the error "Failed to
\* download audio" of line 160 is never raised.
C18_DownloadReturnsExistingPath ==
    /\ (pc = "pv_check" =>
          /\ audio_path # None
          /\ audio_path = temp_file
          /\ fs[audio_path] # "absent")
    /\ (outcome.op = "download_audio" => outcome.kind \in {"return", "raise"})
    /\ (Succeeded("download_audio") =>
          /\ outcome.val = temp_file
          /\ outcome.val \in Paths
          /\ fs[outcome.val] # "absent")
    /\ (exc # None => exc.msg # FailedToDownload)
    /\ (outcome.kind = "raise" => ~Contains(outcome.val.msg, FailedToDownload[1]))

C18_Witness ==
    /\ pc = "pv_check"
    /\ audio_path = temp_file
    /\ fs[audio_path] = "empty"
    /\ Len(attempts) = 4

\* a step in which load_model runs, and one in which its loader raises
LoadModelRuns == (pc = "idle" /\ entry' = "load_model") \/ pc = "tr_load"
LoaderRaises == (pc = "idle" /\ outcome' = Raised("load_model", LoaderError)) \/ (pc = "tr_load" /\ pc' = "tr_except")

\* C19: after every step _model_loaded is set exactly when self.model holds a
\* handle; a step whose loader raises leaves the flag false and the handle unset;
\* and load_model run with the flag false invokes the loader.
C19_FlagMatchesHandle ==
    [][/\ (model_loaded' <=> model' # None)
       /\ (LoaderRaises => (~model_loaded' /\ model' = None /\ model' = model))
       /\ ((LoadModelRuns /\ ~model_loaded) => loaderCalls' = loaderCalls + 1)]_vars

C19_Witness ==
    /\ Succeeded("load_model")
    /\ model_loaded
    /\ loaderCalls = 2
    /\ callLoads = 1
    /\ model = [handle |-> 2]

ProcessCalled == entry = "process_video"
ProcessPrefix == StagePrefix("process_video")
SingleProcessError(e) ==
    /\ e.type = "ValueError"
    /\ e.msg[1] = ProcessPrefix
    /\ \A i \in 2..Len(e.msg) : e.msg[i] # ProcessPrefix

\* C20: every process_video call eventually ends, and ends with one outcome:
\* the return of the transcript text the model produced, or the raise of one
\* ValueError whose message starts with "Error processing video: ".
C20_ProcessVideoTerminates ==
    ProcessCalled ~>
        /\ ProcessEnded
        /\ \/ outcome.kind = "return" /\ modelText # None /\ outcome.val = modelText
           \/ outcome.kind = "raise" /\ SingleProcessError(outcome.val)

C20_Witness ==
    /\ ProcessEnded
    /\ outcome.kind = "raise"
    /\ SingleProcessError(outcome.val)
    /\ outcome.val.msg[2] = "Error transcribing audio: "
    /\ callInvokes = 1
====
